---------------------------- MODULE Spec2Model ----------------------------
(***************************************************************************)
(* A model of src/main.py: the SIP (systematic investment plan) calculator. *)
(* The script generates a monthly schedule, resolves each scheduled date    *)
(* to the first NAV on or after it, accumulates units, values the holding   *)
(* at the end of the period and computes the return metrics.                *)
(*                                                                          *)
(* Dates are <<year, month, day>> triples.  Floats are modelled by exact    *)
(* rationals <<numerator, denominator>> in lowest terms (denominator > 0).  *)
(* None is the empty tuple.                                                 *)
(***************************************************************************)
EXTENDS Integers, Sequences, FiniteSets, TLC

VARIABLES
    START_YEAR, START_MONTH, END_YEAR, END_MONTH, SIP_DAY,
    nav_data,                  \* sequence of [Date, NAV], sorted by Date
    sip_dates,                 \* the schedule
    idx,                       \* position of the for loop in sip_dates
    total_units, total_investment, transactions, processed_investments,
    monthly_performance_data, last_value_after_sip, first_investment_date,
    final_nav_date, final_nav, final_value,
    absolute_return, annualized_return_xirr, dates_for_xirr, amounts,
    cagr, investment_duration_years,
    pc

config == <<START_YEAR, START_MONTH, END_YEAR, END_MONTH, SIP_DAY>>

engine == <<total_units, total_investment, transactions, processed_investments,
            monthly_performance_data, last_value_after_sip,
            first_investment_date>>

results == <<final_nav_date, final_nav, final_value, absolute_return,
             annualized_return_xirr, dates_for_xirr, amounts, cagr,
             investment_duration_years>>

vars == <<config, nav_data, sip_dates, idx, engine, results, pc>>

None == <<>>

SIP_AMOUNT == 10000

----------------------------------------------------------------------------
(* Bounds of the model.                                                     *)

\* the longest NAV series that is enumerated
MaxNavLen == 3

\* the run is checked for the periods within these months
RunYears == {2024}

RunMonths == {1, 2, 3}

RunDays == {1, 15, 31}

NavValues == {-5, 0, 100, 110}

\* inputs of generate_sip_dates when it is checked on its own
GenYears == {2023, 2024}

GenMonths == 1 .. 12

GenDays == {1, 15, 28, 29, 30, 31, 32}

----------------------------------------------------------------------------
(* Calendar arithmetic (calendar.monthrange, datetime, relativedelta).      *)

IsLeap(year) == year % 4 = 0 /\ (year % 100 # 0 \/ year % 400 = 0)

MonthLengths == <<31, 28, 31, 30, 31, 30, 31, 31, 30, 31, 30, 31>>

get_last_day_of_month(year, month) ==
    IF month = 2 /\ IsLeap(year) THEN 29 ELSE MonthLengths[month]

Min(a, b) == IF a <= b THEN a ELSE b

DateLT(a, b) ==
    \/ a[1] < b[1]
    \/ a[1] = b[1] /\ a[2] < b[2]
    \/ a[1] = b[1] /\ a[2] = b[2] /\ a[3] < b[3]

DateLE(a, b) == a = b \/ DateLT(a, b)

RECURSIVE DaysBeforeMonth(_, _)
DaysBeforeMonth(year, month) ==
    IF month = 1 THEN 0
    ELSE DaysBeforeMonth(year, month - 1) + get_last_day_of_month(year, month - 1)

\* datetime.toordinal(): days since 0001-01-01 in the proleptic Gregorian calendar
ToOrdinal(d) ==
    LET y == d[1] - 1
    IN  y * 365 + (y \div 4) - (y \div 100) + (y \div 400)
          + DaysBeforeMonth(d[1], d[2]) + d[3]

\* (a - b).days
DaysBetween(a, b) == ToOrdinal(a) - ToOrdinal(b)

\* current_date + relativedelta(months=1): the day is cut to the new month's length
AddOneMonth(d) ==
    LET y == IF d[2] = 12 THEN d[1] + 1 ELSE d[1]
        m == IF d[2] = 12 THEN 1 ELSE d[2] + 1
    IN  <<y, m, Min(d[3], get_last_day_of_month(y, m))>>

----------------------------------------------------------------------------
(* Float arithmetic, modelled exactly: a number is <<numerator, denominator>>. *)

Abs(n) == IF n < 0 THEN -n ELSE n

RECURSIVE GCD(_, _)
GCD(a, b) == IF b = 0 THEN a ELSE GCD(b, a % b)

\* n / d in lowest terms, d # 0
Rat(n, d) ==
    LET g == GCD(Abs(n), Abs(d))
        s == IF d < 0 THEN -1 ELSE 1
    IN  <<(s * n) \div g, (s * d) \div g>>

R(n) == <<n, 1>>

RAdd(a, b) == Rat(a[1] * b[2] + b[1] * a[2], a[2] * b[2])

RSub(a, b) == Rat(a[1] * b[2] - b[1] * a[2], a[2] * b[2])

RMul(a, b) == Rat(a[1] * b[1], a[2] * b[2])

RDiv(a, b) == Rat(a[1] * b[2], a[2] * b[1])

RLT(a, b) == a[1] * b[2] < b[1] * a[2]

RLE(a, b) == a[1] * b[2] <= b[1] * a[2]

RPos(a) == a[1] > 0

----------------------------------------------------------------------------
(* generate_sip_dates                                                       *)

\* a slip: the day of the previous date is carried over, not the target day
NextSipDate_carry(current_date, day) == AddOneMonth(current_date)

\* one pass of the loop body after the append: the next scheduled date
NextSipDate(current_date, day) ==
    LET moved == AddOneMonth(current_date)
        last_day_next_month == get_last_day_of_month(moved[1], moved[2])
        actual_day == Min(day, last_day_next_month)
    IN  <<moved[1], moved[2], actual_day>>

RECURSIVE SipLoop(_, _, _, _)
SipLoop(dates, current_date, end_target_date, day) ==
    IF DateLE(current_date, end_target_date)
    THEN SipLoop(Append(dates, current_date), NextSipDate(current_date, day),
                 end_target_date, day)
    ELSE dates

generate_sip_dates(start_year, start_month, end_year, end_month, day) ==
    LET start_day == Min(day, get_last_day_of_month(start_year, start_month))
        current_date == <<start_year, start_month, start_day>>
        end_target_month_last_day == get_last_day_of_month(end_year, end_month)
        end_target_date ==
            <<end_year, end_month, Min(day, end_target_month_last_day)>>
    IN  SipLoop(<<>>, current_date, end_target_date, day)

----------------------------------------------------------------------------
(* Before the script assigns a variable it holds None.                      *)

BlankEngine ==
    /\ total_units = None
    /\ total_investment = None
    /\ transactions = None
    /\ processed_investments = None
    /\ monthly_performance_data = None
    /\ last_value_after_sip = None
    /\ first_investment_date = None

BlankResults ==
    /\ final_nav_date = None
    /\ final_nav = None
    /\ final_value = None
    /\ absolute_return = None
    /\ annualized_return_xirr = None
    /\ dates_for_xirr = None
    /\ amounts = None
    /\ cagr = None
    /\ investment_duration_years = None

----------------------------------------------------------------------------
(* The run of the script, from the loaded, cleaned and sorted NAV data.     *)

\* the dates on which the enumerated series may carry a NAV: the first and the
\* last days of months, so that a row can fall on a scheduled date and on the
\* last day of the period, with rows before and after them
NavDates ==
    {<<2024, 2, 1>>, <<2024, 2, 29>>, <<2024, 3, 1>>, <<2024, 3, 31>>}

NavRows == [Date : NavDates, NAV : NavValues]

\* sort_index: the rows are in date order; equal dates may repeat
IsSorted(rows) ==
    \A i \in 1 .. (Len(rows) - 1) : DateLE(rows[i].Date, rows[i + 1].Date)

SortedSeries ==
    {rows \in UNION {[1 .. n -> NavRows] : n \in 1 .. MaxNavLen} : IsSorted(rows)}

Init ==
    /\ START_YEAR \in RunYears /\ START_MONTH \in RunMonths
    /\ END_YEAR \in RunYears /\ END_MONTH \in RunMonths
    /\ SIP_DAY \in RunDays
    /\ nav_data \in SortedSeries
    /\ sip_dates = <<>>
    /\ idx = 1
    /\ BlankEngine /\ BlankResults
    /\ pc = "filter"

\* nav_data[filter_start:filter_end], both ends included
FilterWindow(rows, filter_start, filter_end) ==
    LET InWindow(row) == /\ filter_start <= ToOrdinal(row.Date)
                         /\ ToOrdinal(row.Date) <= filter_end
    IN  SelectSeq(rows, InWindow)

FilterNav ==
    /\ pc = "filter"
    /\ LET filter_start == ToOrdinal(<<START_YEAR, START_MONTH, 1>>) - 7
           end_month_last_day == get_last_day_of_month(END_YEAR, END_MONTH)
           filter_end == ToOrdinal(<<END_YEAR, END_MONTH, end_month_last_day>>) + 7
           kept == FilterWindow(nav_data, filter_start, filter_end)
       IN  /\ nav_data' = kept
           /\ pc' = IF kept = <<>> THEN "exit_no_nav_data" ELSE "generate"
    /\ UNCHANGED <<config, sip_dates, idx, engine, results>>

\* a slip: the check for an empty schedule is left out
NoSipDates_never(dates) == FALSE

\* "if not sip_dates"
NoSipDates(dates) == dates = <<>>

GenerateSchedule ==
    /\ pc = "generate"
    /\ LET dates == generate_sip_dates(START_YEAR, START_MONTH, END_YEAR,
                                       END_MONTH, SIP_DAY)
       IN  /\ sip_dates' = dates
           /\ IF NoSipDates(dates)
              THEN /\ pc' = "exit_no_sip_dates"
                   /\ UNCHANGED engine
              ELSE /\ pc' = "loop"
                   /\ total_units' = R(0)
                   /\ total_investment' = R(0)
                   /\ transactions' = <<>>
                   /\ processed_investments' = 0
                   /\ monthly_performance_data' = <<>>
                   /\ last_value_after_sip' = R(0)
                   /\ first_investment_date' = None
    /\ idx' = 1
    /\ UNCHANGED <<config, nav_data, results>>

\* a slip: the rows strictly after the date
FutureNavs_after(rows, sip_date) ==
    LET After(row) == DateLT(sip_date, row.Date)
    IN  SelectSeq(rows, After)

\* nav_data.loc[sip_date:] on the sorted index: the rows on or after sip_date.
\* A slice of a sorted index raises no KeyError; the handler of one would pick
\* the same row, the first with index >= sip_date.
FutureNavs(rows, sip_date) ==
    LET before == Cardinality({i \in 1 .. Len(rows) : DateLT(rows[i].Date, sip_date)})
    IN  SubSeq(rows, before + 1, Len(rows))

\* a slip: only a zero NAV is refused
InvalidNav_zero(nav) == nav = 0

\* "nav is None or pd.isna(nav) or nav <= 0"; the loaded rows hold no NaN
InvalidNav(nav) == nav <= 0

\* a slip: the gain is measured against the value before this trade
PeriodReturn_base(processed, last_value, value_before_investment) ==
    IF processed > 1 /\ RPos(last_value)
    THEN RMul(RDiv(RSub(value_before_investment, last_value),
                   value_before_investment), R(100))
    ELSE R(0)

\* period_return_pct: 0.0 unless an earlier trade left a positive value

PeriodReturn(processed, last_value, value_before_investment) ==
    IF processed > 1 /\ RPos(last_value)
    THEN RMul(RDiv(RSub(value_before_investment, last_value), last_value), R(100))
    ELSE R(0)

InLoop == pc = "loop" /\ idx <= Len(sip_dates)

SkipNoNav ==
    /\ InLoop
    /\ FutureNavs(nav_data, sip_dates[idx]) = <<>>
    /\ idx' = idx + 1
    /\ UNCHANGED <<config, nav_data, sip_dates, engine, results, pc>>

SkipInvalidNav ==
    /\ InLoop
    /\ LET future_navs == FutureNavs(nav_data, sip_dates[idx])
       IN  /\ future_navs # <<>>
           /\ InvalidNav(future_navs[1].NAV)
    /\ idx' = idx + 1
    /\ UNCHANGED <<config, nav_data, sip_dates, engine, results, pc>>

\* a slip: the units are added, the invested amount is not
InvestedAfter_same(invested) == invested

InvestedAfter(invested) == RAdd(invested, R(SIP_AMOUNT))

Invest ==
    /\ InLoop
    /\ LET future_navs == FutureNavs(nav_data, sip_dates[idx])
       IN  /\ future_navs # <<>>
           /\ ~InvalidNav(future_navs[1].NAV)
           /\ LET nav_on_sip_date == R(future_navs[1].NAV)
                  actual_investment_date == future_navs[1].Date
                  units_bought == RDiv(R(SIP_AMOUNT), nav_on_sip_date)
                  value_before_investment == RMul(total_units, nav_on_sip_date)
                  units_after == RAdd(total_units, units_bought)
                  value_after_investment == RMul(units_after, nav_on_sip_date)
                  period_return_pct ==
                      PeriodReturn(processed_investments + 1, last_value_after_sip,
                                   value_before_investment)
              IN  /\ total_units' = units_after
                  /\ total_investment' = InvestedAfter(total_investment)
                  /\ processed_investments' = processed_investments + 1
                  /\ first_investment_date' =
                         IF first_investment_date = None
                         THEN actual_investment_date
                         ELSE first_investment_date
                  /\ transactions' =
                         Append(transactions,
                                <<actual_investment_date, R(-SIP_AMOUNT)>>)
                  /\ monthly_performance_data' =
                         Append(monthly_performance_data,
                                [InvestmentDate |-> actual_investment_date,
                                 NAV |-> nav_on_sip_date,
                                 UnitsBought |-> units_bought,
                                 TotalUnits |-> units_after,
                                 ValueAfterSIP |-> value_after_investment,
                                 PeriodReturn |-> period_return_pct])
                  /\ last_value_after_sip' = value_after_investment
    /\ idx' = idx + 1
    /\ UNCHANGED <<config, nav_data, sip_dates, results, pc>>

\* a slip: the check for an empty run is left out
NoInvestments_never(processed) == FALSE

\* "if processed_investments == 0"
NoInvestments(processed) == processed = 0

LoopEnd ==
    /\ pc = "loop"
    /\ idx > Len(sip_dates)
    /\ pc' = IF NoInvestments(processed_investments)
             THEN "exit_no_investments"
             ELSE "final_value"
    /\ UNCHANGED <<config, nav_data, sip_dates, idx, engine, results>>

\* nav_data.loc[:end_period_date] on the sorted index: the rows on or before it
PastNavs(rows, end_period_date) ==
    LET upto == Cardinality({i \in 1 .. Len(rows) :
                                DateLE(rows[i].Date, end_period_date)})
    IN  SubSeq(rows, 1, upto)

\* a slip: the first row of the period is taken, not the last
FinalNavRow_first(rows, end_period_date) == rows[1]

\* the row the final valuation uses; rows is not empty
FinalNavRow(rows, end_period_date) ==
    LET final_nav_data == PastNavs(rows, end_period_date)
    IN  IF final_nav_data = <<>>
        THEN rows[Len(rows)]
        ELSE final_nav_data[Len(final_nav_data)]

FinalValue ==
    /\ pc = "final_value"
    /\ LET end_period_day == get_last_day_of_month(END_YEAR, END_MONTH)
           end_period_date == <<END_YEAR, END_MONTH, end_period_day>>
       IN  IF PastNavs(nav_data, end_period_date) = <<>> /\ nav_data = <<>>
           THEN /\ pc' = "exit_no_final_nav"
                /\ UNCHANGED <<transactions, results>>
           ELSE LET row == FinalNavRow(nav_data, end_period_date)
                    value == RMul(total_units, R(row.NAV))
                IN  /\ final_nav_date' = row.Date
                    /\ final_nav' = R(row.NAV)
                    /\ final_value' = value
                    /\ transactions' = Append(transactions, <<row.Date, value>>)
                    /\ pc' = "returns"
                    /\ UNCHANGED <<absolute_return, annualized_return_xirr,
                                   dates_for_xirr, amounts, cagr,
                                   investment_duration_years>>
    /\ UNCHANGED <<config, nav_data, sip_dates, idx, total_units, total_investment,
                   processed_investments, monthly_performance_data,
                   last_value_after_sip, first_investment_date>>

\* the order of (date, amount) tuples
PairLE(a, b) == DateLT(a[1], b[1]) \/ (a[1] = b[1] /\ RLE(a[2], b[2]))

RECURSIVE InsertSorted(_, _)
InsertSorted(t, sorted) ==
    IF sorted = <<>> THEN <<t>>
    ELSE IF PairLE(t, Head(sorted)) THEN <<t>> \o sorted
    ELSE <<Head(sorted)>> \o InsertSorted(t, Tail(sorted))

\* sorted(zip(dates_for_xirr, amounts))
RECURSIVE Sorted(_)
Sorted(pairs) ==
    IF pairs = <<>> THEN <<>>
    ELSE InsertSorted(pairs[Len(pairs)], Sorted(SubSeq(pairs, 1, Len(pairs) - 1)))

DatesMonotonic(dates) ==
    \A i \in 1 .. (Len(dates) - 1) : DateLE(dates[i], dates[i + 1])

\* pyxirr.xirr is a library: it yields a rate, or no rate (None, or an error
\* that the script catches)
XirrOutcomes == {None, <<"rate">>}

\* a slip: a duration of zero days is let through
CagrComputable_zero(invested, value, days) ==
    RPos(invested) /\ RPos(value) /\ days >= 0

\* the guards of the simplified CAGR
CagrComputable(invested, value, days) ==
    RPos(invested) /\ RPos(value) /\ days > 0

CalcReturns ==
    /\ pc = "returns"
    /\ absolute_return' =
           IF RPos(total_investment)
           THEN RMul(RDiv(RSub(final_value, total_investment), total_investment),
                     R(100))
           ELSE R(0)
    /\ LET dates == [i \in 1 .. Len(transactions) |-> transactions[i][1]]
           all_amounts == [i \in 1 .. Len(transactions) |-> transactions[i][2]]
           sorted_transactions == Sorted(transactions)
       IN  IF Len(dates) > 1 /\ Len(all_amounts) > 1
           THEN /\ IF DatesMonotonic(dates)
                   THEN dates_for_xirr' = dates /\ amounts' = all_amounts
                   ELSE /\ dates_for_xirr' =
                               [i \in 1 .. Len(sorted_transactions) |->
                                   sorted_transactions[i][1]]
                        /\ amounts' =
                               [i \in 1 .. Len(sorted_transactions) |->
                                   sorted_transactions[i][2]]
                /\ annualized_return_xirr' \in XirrOutcomes
           ELSE /\ dates_for_xirr' = None
                /\ amounts' = all_amounts
                /\ annualized_return_xirr' = None
    /\ IF /\ first_investment_date # None /\ final_nav_date # None
          /\ RPos(total_investment) /\ RPos(final_value)
       THEN LET days == DaysBetween(final_nav_date, first_investment_date)
            IN  /\ investment_duration_years' = Rat(days * 4, 1461)
                /\ cagr' = IF CagrComputable(total_investment, final_value, days)
                           THEN <<RDiv(final_value, total_investment),
                                  Rat(days * 4, 1461)>>
                           ELSE None
       ELSE /\ investment_duration_years' = None
            /\ cagr' = None
    /\ pc' = "done"
    /\ UNCHANGED <<config, nav_data, sip_dates, idx, engine, final_nav_date,
                   final_nav, final_value>>

Next ==
    \/ FilterNav
    \/ GenerateSchedule
    \/ SkipNoNav
    \/ SkipInvalidNav
    \/ Invest
    \/ LoopEnd
    \/ FinalValue
    \/ CalcReturns

Spec == Init /\ [][Next]_vars

----------------------------------------------------------------------------
(* generate_sip_dates on its own, over every start, end and day.            *)

InitGen ==
    /\ START_YEAR \in GenYears /\ START_MONTH \in GenMonths
    /\ END_YEAR \in GenYears /\ END_MONTH \in GenMonths
    /\ SIP_DAY \in GenDays
    /\ nav_data = <<>>
    /\ sip_dates = <<>>
    /\ idx = 1
    /\ BlankEngine /\ BlankResults
    /\ pc = "call"

CallGenerate ==
    /\ pc = "call"
    /\ sip_dates' = generate_sip_dates(START_YEAR, START_MONTH, END_YEAR,
                                       END_MONTH, SIP_DAY)
    /\ pc' = "returned"
    /\ UNCHANGED <<config, nav_data, idx, engine, results>>

NextGen == CallGenerate

SpecGen == InitGen /\ [][NextGen]_vars

----------------------------------------------------------------------------
(* What the claims refer to, stated without the script's own operators.     *)

DaysInMonth(y, m) ==
    CASE m \in {1, 3, 5, 7, 8, 10, 12} -> 31
      [] m \in {4, 6, 9, 11} -> 30
      [] OTHER -> IF (y % 4 = 0 /\ y % 100 # 0) \/ y % 400 = 0 THEN 29 ELSE 28

MonthIndex(y, m) == y * 12 + (m - 1)

StartAfterEnd == MonthIndex(START_YEAR, START_MONTH) > MonthIndex(END_YEAR, END_MONTH)

\* the positions of the rows dated on or after d
OnOrAfter(d) == {i \in 1 .. Len(nav_data) : DateLE(d, nav_data[i].Date)}

\* the position of the first row dated on or after d, 0 when there is none
FirstOnOrAfter(d) ==
    LET S == OnOrAfter(d)
    IN  IF S = {} THEN 0 ELSE CHOOSE i \in S : \A j \in S : i <= j

\* the price the k-th schedule entry resolves to, 0 when it finds no row
PriceOf(k) ==
    LET i == FirstOnOrAfter(sip_dates[k])
    IN  IF i = 0 THEN 0 ELSE nav_data[i].NAV

\* the k-th schedule entry resolves to a valid price
Resolves(k) == PriceOf(k) > 0

\* the units bought by the schedule entries 1..k that resolve
RECURSIVE UnitsOfPrefix(_)
UnitsOfPrefix(k) ==
    IF k = 0 THEN R(0)
    ELSE LET price == PriceOf(k)
         IN  IF price > 0
             THEN RAdd(UnitsOfPrefix(k - 1), Rat(SIP_AMOUNT, price))
             ELSE UnitsOfPrefix(k - 1)

TradesOfPrefix(k) == Cardinality({j \in 1 .. k : Resolves(j)})

----------------------------------------------------------------------------
(* C1: after the loop has processed any prefix of the schedule, with N the  *)
(* number of entries of the prefix that resolved to a valid price, the      *)
(* invested total is N * SIP_AMOUNT, the units are the sum of               *)
(* SIP_AMOUNT / price over those trades, and the trade count, the number of *)
(* performance records and the number of ledger entries are all N.          *)
C1_Accumulation ==
    pc = "loop" =>
        LET N == TradesOfPrefix(idx - 1)
        IN  /\ total_investment = R(N * SIP_AMOUNT)
            /\ total_units = UnitsOfPrefix(idx - 1)
            /\ processed_investments = N
            /\ Len(monthly_performance_data) = N
            /\ Len(transactions) = N

\* three entries processed, one of them skipped
C1_Witness ==
    /\ pc = "loop"
    /\ idx = 4
    /\ processed_investments = 2
    /\ total_units = Rat(SIP_AMOUNT * 21, 1100)

(* C2: the resolver returns the first row dated on or after the scheduled   *)
(* date, so the executed date is not before the scheduled one and no row    *)
(* lies between them; when no row is dated on or after it the entry is      *)
(* skipped and the loop goes on.                                            *)
C2_Resolver ==
    [][InLoop =>
          LET d == sip_dates[idx]
              future_navs == FutureNavs(nav_data, d)
          IN  IF OnOrAfter(d) = {}
              THEN /\ future_navs = <<>>
                   /\ UNCHANGED engine
                   /\ idx' = idx + 1
                   /\ pc' = "loop"
              ELSE /\ future_navs # <<>>
                   /\ future_navs[1] = nav_data[FirstOnOrAfter(d)]
                   /\ DateLE(d, future_navs[1].Date)
                   /\ \A i \in 1 .. Len(nav_data) :
                          ~(/\ DateLE(d, nav_data[i].Date)
                            /\ DateLT(nav_data[i].Date, future_navs[1].Date))
                   /\ processed_investments' # processed_investments =>
                          /\ transactions'[Len(transactions')][1] = future_navs[1].Date
                          /\ monthly_performance_data'[Len(transactions')].NAV
                                 = R(future_navs[1].NAV)
      ]_vars

\* the first entry was executed on a later date, the second finds no row
C2_Witness ==
    /\ pc = "loop"
    /\ idx = 2
    /\ Len(sip_dates) >= 2
    /\ Len(transactions) = 1
    /\ DateLT(sip_dates[1], transactions[1][1])
    /\ Len(nav_data) >= 2
    /\ OnOrAfter(sip_dates[2]) = {}

(* C3: when the start month is not after the end month, generate_sip_dates  *)
(* returns one date for each month from the start month to the end month,   *)
(* in strictly increasing order, each on day min(day, days in the month).   *)
C3_OnePerMonth ==
    (pc = "returned" /\ ~StartAfterEnd) =>
        LET first == MonthIndex(START_YEAR, START_MONTH)
            last == MonthIndex(END_YEAR, END_MONTH)
        IN  /\ Len(sip_dates) = last - first + 1
            /\ \A k \in 1 .. Len(sip_dates) :
                   LET y == (first + k - 1) \div 12
                       m == ((first + k - 1) % 12) + 1
                   IN  sip_dates[k] = <<y, m, Min(SIP_DAY, DaysInMonth(y, m))>>
            /\ \A k \in 1 .. (Len(sip_dates) - 1) :
                   DateLT(sip_dates[k], sip_dates[k + 1])

\* day 31: 30 April is followed by 31 May
C3_Witness ==
    /\ pc = "returned"
    /\ SIP_DAY = 31
    /\ \E k \in 1 .. (Len(sip_dates) - 1) :
           sip_dates[k] = <<2024, 4, 30>> /\ sip_dates[k + 1] = <<2024, 5, 31>>

\* the units held before the k-th performance record's trade
RECURSIVE UnitsBeforeRecord(_)
UnitsBeforeRecord(k) ==
    IF k = 1 THEN R(0)
    ELSE RAdd(UnitsBeforeRecord(k - 1),
              RDiv(R(SIP_AMOUNT), monthly_performance_data[k - 1].NAV))

\* (preTradeValue - previous post-trade value) / previous post-trade value * 100
ExpectedPeriodReturn(k) ==
    LET held == UnitsBeforeRecord(k)
        preTradeValue == RMul(held, monthly_performance_data[k].NAV)
        last == RMul(held, monthly_performance_data[k - 1].NAV)
    IN  RMul(RDiv(RSub(preTradeValue, last), last), R(100))

HasRecords == pc \in {"loop", "exit_no_investments", "final_value", "returns", "done"}

C5_Ledger ==
    pc \in {"returns", "done"} =>
        LET n == Len(transactions)
        IN  /\ n = processed_investments + 1
            /\ \A i \in 1 .. (n - 1) : transactions[i][2] = R(-SIP_AMOUNT)
            /\ \A i \in 1 .. (n - 2) :
                   DateLE(transactions[i][1], transactions[i + 1][1])
            /\ RPos(transactions[n][2])
            /\ \A i \in 1 .. (n - 1) :
                   DateLE(transactions[i][1], transactions[n][1])

\* the rows dated on or before the last day of the end month
EndPeriodDate == <<END_YEAR, END_MONTH, DaysInMonth(END_YEAR, END_MONTH)>>

OnOrBeforeEnd == {i \in 1 .. Len(nav_data) : DateLE(nav_data[i].Date, EndPeriodDate)}

(* C6: the final valuation uses a row with the largest date on or before    *)
(* the last day of the end month, or the last row of the series when no row *)
(* is dated on or before it, and final_value is the units bought by the     *)
(* whole schedule times that row's price.                                   *)
C6_FinalValuation ==
    pc \in {"returns", "done"} =>
        /\ IF OnOrBeforeEnd = {}
           THEN /\ final_nav_date = nav_data[Len(nav_data)].Date
                /\ final_nav = R(nav_data[Len(nav_data)].NAV)
           ELSE LET last == CHOOSE i \in OnOrBeforeEnd :
                                \A j \in OnOrBeforeEnd : j <= i
                IN  /\ \A j \in OnOrBeforeEnd :
                           DateLE(nav_data[j].Date, nav_data[last].Date)
                    /\ final_nav_date = nav_data[last].Date
                    /\ final_nav = R(nav_data[last].NAV)
        /\ LET units == UnitsOfPrefix(Len(sip_dates))
           IN  /\ total_units = units
               /\ final_value = RMul(units, final_nav)

\* two rows within the period at different prices and one after its end
C6_Witness ==
    /\ pc = "done"
    /\ Len(nav_data) = 3
    /\ OnOrBeforeEnd = {1, 2}
    /\ nav_data[1].Date # nav_data[2].Date
    /\ nav_data[1].NAV # nav_data[2].NAV
    /\ nav_data[3].NAV # nav_data[2].NAV
    /\ final_nav_date = nav_data[2].Date
    /\ processed_investments >= 2

(* C7: when every schedule entry was skipped the run ends in the fatal "no  *)
(* investments" state, with no final valuation, no redemption entry and no  *)
(* return metric; the valuation and the returns are reached only with at    *)
(* least one trade.                                                         *)
C7_NoInvestments ==
    /\ [](pc \in {"final_value", "returns", "done"} => processed_investments >= 1)
    /\ [](pc = "exit_no_investments" =>
              /\ processed_investments = 0
              /\ transactions = <<>>
              /\ BlankResults)
    /\ [][(pc = "loop" /\ idx > Len(sip_dates) /\ processed_investments = 0)
              => pc' = "exit_no_investments"]_vars
    /\ [][pc # "exit_no_investments"]_vars

\* a schedule of several entries, all skipped
C7_Witness ==
    /\ pc = "exit_no_investments"
    /\ Len(sip_dates) >= 2
    /\ idx = Len(sip_dates) + 1

(* C8: a schedule entry that finds no row on or after its date, or whose    *)
(* row has a non-positive price, leaves the engine's state, the ledger and  *)
(* the records unchanged and the loop goes on to the next entry; a step of  *)
(* the loop changes all of the state of a trade or none of it.              *)
C8_SkipFrame ==
    [][InLoop =>
          /\ ~Resolves(idx) =>
                 /\ UNCHANGED engine
                 /\ idx' = idx + 1
                 /\ pc' = "loop"
          /\ \/ UNCHANGED engine
             \/ /\ processed_investments' = processed_investments + 1
                /\ RLT(total_units, total_units')
                /\ RLT(total_investment, total_investment')
                /\ Len(transactions') = Len(transactions) + 1
                /\ Len(monthly_performance_data') = Len(monthly_performance_data) + 1
                /\ last_value_after_sip' =
                       RMul(total_units', R(PriceOf(idx)))
                /\ first_investment_date' # None
                /\ idx' = idx + 1
      ]_vars

\* the first entry met a non-positive price and was skipped, the second traded
C8_Witness ==
    /\ pc = "loop"
    /\ idx = 3
    /\ processed_investments = 1
    /\ PriceOf(1) < 0
    /\ Len(transactions) = 1
    /\ total_investment = R(SIP_AMOUNT)

(* C9: when the start month is after the end month the schedule is empty    *)
(* and the run stops before the loop: no engine state, ledger, record or    *)
(* result is created.                                                       *)
C9_EmptySchedule ==
    StartAfterEnd =>
        /\ pc \in {"filter", "generate", "exit_no_nav_data", "exit_no_sip_dates"}
        /\ sip_dates = <<>>
        /\ BlankEngine
        /\ BlankResults

\* the schedule was generated, with day 31, and found empty
C9_Witness ==
    /\ pc = "exit_no_sip_dates"
    /\ StartAfterEnd
    /\ SIP_DAY = 31
    /\ nav_data # <<>>

(* C10: at the end of a run the simplified CAGR is not computed exactly     *)
(* when the days from the first investment to the final price date are <= 0 *)
(* or total_invested <= 0 or final_value <= 0; the totals, the final value  *)
(* and the absolute return are reported all the same.                       *)
C10_Cagr ==
    pc = "done" =>
        LET days == DaysBetween(final_nav_date, first_investment_date)
        IN  /\ cagr = None <=>
                   (days <= 0 \/ total_investment[1] <= 0 \/ final_value[1] <= 0)
            /\ total_investment = R(processed_investments * SIP_AMOUNT)
            /\ total_units # None
            /\ final_value = RMul(total_units, final_nav)
            /\ absolute_return =
                   RMul(RDiv(RSub(final_value, total_investment),
                             total_investment), R(100))

\* the first investment and the final price fall on the same day
C10_Witness ==
    /\ pc = "done"
    /\ first_investment_date = final_nav_date
    /\ RPos(final_value)
    /\ cagr = None

=============================================================================
